---------------------------- MODULE Spec2Model ----------------------------
(***************************************************************************)
(* Model of streamlit_app.py (Cost Tracker for Open WebUI): main() and the *)
(* three functions it calls, load_data, process_data and plot_data.        *)
(*                                                                         *)
(* Python values are records tagged by kind, each kind with its own        *)
(* payload field (num, str, items, fields); money is counted in            *)
(* hundredths so that float("1.50") and the JSON number 1.5 are the same   *)
(* number 150.                                                             *)
(***************************************************************************)
EXTENDS Integers, Sequences, FiniteSets, TLC

VARIABLES
    pc,                \* where main stands: "number_input", "path_exists",
                       \* "load_data", "process_data", "plot_data", "done"
    quicksort_stable,  \* whether the sort of this build keeps rows of equal
                       \* value in place
    fs,                \* the data directory: the month and the content of
                       \* the one file costs-<year>-<month>.json it holds
    month,             \* main: the value of the number_input
    data,              \* main: what load_data returned
    processed_data,    \* main: the rows process_data returned
    messages,          \* what st.info, st.warning and st.error have shown
    calls,             \* the functions main has called, in order
    raised,            \* the exception that left process_data, "" for none
    tables             \* what plot_data has shown

vars == <<pc, quicksort_stable, fs, month, data, processed_data, messages,
          calls, raised, tables>>

(***************************************************************************)
(* Bounds of the model.                                                    *)
(***************************************************************************)
MaxUsers == 2
MaxRecords == 12

(***************************************************************************)
(* Program constants.                                                      *)
(***************************************************************************)
MinMonth == 0
MaxMonth == 12
TopN == 10

(***************************************************************************)
(* Python / JSON values.                                                   *)
(***************************************************************************)
None == [kind |-> "null"]
Unbound == [kind |-> "unbound"]
Absent == [kind |-> "absent"]
Num(n) == [kind |-> "num", num |-> n]
Str(s) == [kind |-> "str", str |-> s]
List(q) == [kind |-> "list", items |-> q]
Dict(q) == [kind |-> "dict", fields |-> q]

Ok(v) == [exc |-> "", val |-> v]
Raise(e, v) == [exc |-> e, val |-> v]

Chars(s) == [i \in 1..Len(s) |-> Str(SubSeq(s, i, i))]

Keys(d) == [i \in 1..Len(d.fields) |-> Str(d.fields[i].key)]

HasKey(d, k) == \E i \in 1..Len(d.fields) : d.fields[i].key = k

Lookup(d, k) == d.fields[CHOOSE i \in 1..Len(d.fields) : d.fields[i].key = k].item

\* Python sequence indexing: 0-based, negative indices count from the end.
SeqIndex(q, i) ==
    IF 0 <= i /\ i < Len(q) THEN Ok(q[i + 1])
    ELSE IF i < 0 /\ -i <= Len(q) THEN Ok(q[Len(q) + i + 1])
    ELSE Raise("IndexError", None)

\* obj[idx]
GetItem(obj, idx) ==
    CASE obj.kind = "dict" ->
           IF idx.kind \in {"list", "dict"} THEN Raise("TypeError", None)
           ELSE IF idx.kind = "str" /\ HasKey(obj, idx.str)
                THEN Ok(Lookup(obj, idx.str))
                ELSE Raise("KeyError", idx)
      [] obj.kind = "list" ->
           IF idx.kind = "num" THEN SeqIndex(obj.items, idx.num)
           ELSE Raise("TypeError", None)
      [] obj.kind = "str" ->
           IF idx.kind = "num" THEN SeqIndex(Chars(obj.str), idx.num)
           ELSE Raise("TypeError", None)
      [] OTHER -> Raise("TypeError", None)

\* iter(obj), as the for statement uses it
Iter(obj) ==
    CASE obj.kind = "dict" -> Ok(Keys(obj))
      [] obj.kind = "list" -> Ok(obj.items)
      [] obj.kind = "str" -> Ok(Chars(obj.str))
      [] OTHER -> Raise("TypeError", None)

\* a + b
Add(a, b) ==
    CASE a.kind = "num" /\ b.kind = "num" -> Ok(Num(a.num + b.num))
      [] a.kind = "str" /\ b.kind = "str" -> Ok(Str(a.str \o b.str))
      [] a.kind = "list" /\ b.kind = "list" -> Ok(List(a.items \o b.items))
      [] OTHER -> Raise("TypeError", None)

Digits == "0123456789"

IsDigit(c) == \E i \in 1..Len(Digits) : SubSeq(Digits, i, i) = c

DigitVal(c) == (CHOOSE i \in 1..Len(Digits) : SubSeq(Digits, i, i) = c) - 1

RECURSIVE DigitsVal(_, _)
DigitsVal(s, acc) ==
    IF Len(s) = 0 THEN acc
    ELSE DigitsVal(SubSeq(s, 2, Len(s)), 10 * acc + DigitVal(SubSeq(s, 1, 1)))

AllDigits(s) == Len(s) > 0 /\ \A i \in 1..Len(s) : IsDigit(SubSeq(s, i, i))

DotAt(s) == {i \in 1..Len(s) : SubSeq(s, i, i) = "."}

\* float(s), in hundredths, for the strings met here: decimal literals of
\* at most two decimals (digits on at least one side of the point) and
\* strings with a character that is neither a digit nor a point.
Float(s) ==
    IF AllDigits(s) THEN Ok(Num(100 * DigitsVal(s, 0)))
    ELSE IF Cardinality(DotAt(s)) = 1
    THEN LET d == CHOOSE i \in DotAt(s) : TRUE
             ip == SubSeq(s, 1, d - 1)
             fp == SubSeq(s, d + 1, Len(s))
         IN  IF /\ Len(ip) + Len(fp) > 0
                /\ Len(ip) = 0 \/ AllDigits(ip)
                /\ Len(fp) = 0 \/ AllDigits(fp)
                /\ Len(fp) <= 2
             THEN Ok(Num(100 * DigitsVal(ip, 0)
                         + (IF Len(fp) = 1 THEN 10 ELSE 1) * DigitsVal(fp, 0)))
             ELSE Raise("ValueError", None)
    ELSE Raise("ValueError", None)

(***************************************************************************)
(* load_data                                                               *)
(***************************************************************************)
\* json.load(file): a file is either text that is no JSON document or the
\* serialisation of a JSON value.
JsonLoad(file) ==
    IF file.kind = "text" THEN Raise("JSONDecodeError", None) ELSE Ok(file.val)

InvalidJsonMsg ==
    [level |-> "error", what |-> "Invalid JSON file", key |-> None,
     record |-> None, user |-> None]

load_data(file) ==
    LET r == JsonLoad(file)
    IN  IF r.exc = "" THEN [ret |-> r.val, msgs |-> <<>>]
        ELSE [ret |-> None, msgs |-> <<InvalidJsonMsg>>]

(***************************************************************************)
(* process_data                                                            *)
(***************************************************************************)
Fail(r, rec) == [exc |-> r.exc, arg |-> r.val, record |-> rec, row |-> None]

Row(model, cost, user, total_tokens) ==
    [model |-> model, total_cost |-> cost, user |-> user,
     total_tokens |-> total_tokens]

\* Lines 64-73: the token sum and the row appended.
TryTokens(rec, user_email, model, cost) ==
    LET inp == GetItem(rec, Str("input_tokens"))
        out == GetItem(rec, Str("output_tokens"))
        total_tokens == Add(inp.val, out.val)
    IN  IF inp.exc # "" THEN Fail(inp, rec)
        ELSE IF out.exc # "" THEN Fail(out, rec)
        ELSE IF total_tokens.exc # "" THEN Fail(total_tokens, rec)
        ELSE [exc |-> "", arg |-> None, record |-> rec,
              row |-> Row(model, cost, user_email, total_tokens.val)]

\* Lines 58-62: the cost, made a float when it is a str.
TryCost(rec, user_email, model) ==
    LET cost0 == GetItem(rec, Str("total_cost"))
        cost == IF cost0.val.kind = "str" THEN Float(cost0.val.str) ELSE cost0
    IN  IF cost0.exc # "" THEN Fail(cost0, rec)
        ELSE IF cost.exc # "" THEN Fail(cost, rec)
        ELSE TryTokens(rec, user_email, model, cost.val)

\* Line 57 on, with record bound to rec.
TryRecord(rec, user_email) ==
    LET model == GetItem(rec, Str("model"))
    IN  IF model.exc # "" THEN Fail(model, rec)
        ELSE TryCost(rec, user_email, model.val)

\* Variant of TryFirst that reads the last entry of the sequence, not the
\* first; C3 does not hold of it.
TryLast(seq, user_email, record) ==
    LET last == GetItem(seq, Num(-1))
    IN  IF last.exc # "" THEN Fail(last, record)
        ELSE TryRecord(last.val, user_email)

\* Line 56: record = data[user_email][0]
TryFirst(seq, user_email, record) ==
    LET first == GetItem(seq, Num(0))
    IN  IF first.exc # "" THEN Fail(first, record)
        ELSE TryRecord(first.val, user_email)

\* The body of the try statement for one loop variable; record is the local
\* variable as the previous iterations left it.
TryBody(doc, user_email, record) ==
    LET seq == GetItem(doc, user_email)
    IN  IF seq.exc # "" THEN Fail(seq, record)
        ELSE TryFirst(seq.val, user_email, record)

\* The except clause that handles an exception of the try body.
Handler(exc) ==
    CASE exc = "KeyError" -> "Missing key in record"
      [] exc = "ValueError" -> "Invalid cost or token value in record"
      [] OTHER -> "An error occurred processing record"

ErrorMsg(r, user_email) ==
    [level |-> "error", what |-> Handler(r.exc), key |-> r.arg,
     record |-> r.record, user |-> user_email]

NoDataMsg ==
    [level |-> "warning", what |-> "No valid data found to process",
     key |-> None, record |-> None, user |-> None]

\* The for loop from its i-th item on.  A handler formats the local variable
\* record; when no iteration has bound it yet that raises UnboundLocalError
\* inside the handler, which leaves process_data.
RECURSIVE ForLoop(_, _, _, _, _, _)
ForLoop(doc, items, i, record, acc, msgs) ==
    IF i > Len(items)
    THEN [records |-> acc, msgs |-> msgs, raised |-> ""]
    ELSE LET r == TryBody(doc, items[i], record)
         IN  IF r.exc = ""
             THEN ForLoop(doc, items, i + 1, r.record, Append(acc, r.row), msgs)
             ELSE IF r.record = Unbound
             THEN [records |-> acc, msgs |-> msgs,
                   raised |-> "UnboundLocalError"]
             ELSE ForLoop(doc, items, i + 1, r.record, acc,
                          Append(msgs, ErrorMsg(r, items[i])))

process_data(doc) ==
    LET it == Iter(doc)
    IN  IF it.exc # ""
        THEN [records |-> <<>>, msgs |-> <<>>, raised |-> it.exc]
        ELSE LET r == ForLoop(doc, it.val, 1, Unbound, <<>>, <<>>)
             IN  IF r.raised = "" /\ r.records = <<>>
                 THEN [r EXCEPT !.msgs = Append(@, NoDataMsg)]
                 ELSE r


(***************************************************************************)
(* pandas operations used by plot_data, on frames: sequences of rows, a    *)
(* row a function from column names to plain strings and integers.         *)
(***************************************************************************)
\* Characters in code point order, for Python's comparison of str.
Alphabet == "-.0123456789@TUabcdefghijklmnopqrstuvwxyz"

CharRank(c) == CHOOSE i \in 1..Len(Alphabet) : SubSeq(Alphabet, i, i) = c

RECURSIVE StrLessChars(_, _)
StrLessChars(a, b) ==
    IF Len(a) = 0 THEN Len(b) > 0
    ELSE IF Len(b) = 0 THEN FALSE
    ELSE IF SubSeq(a, 1, 1) = SubSeq(b, 1, 1)
         THEN StrLessChars(SubSeq(a, 2, Len(a)), SubSeq(b, 2, Len(b)))
         ELSE CharRank(SubSeq(a, 1, 1)) < CharRank(SubSeq(b, 1, 1))

\* The names the inputs below use for users and models.
UserKeys == <<"bob", "alice", "carol", "dave">>

ModelKeys == {"gpt-4", "llama"}

Pad2(i) == (IF i < 10 THEN "0" ELSE "") \o ToString(i)

UserName(i) == "u" \o Pad2(i)

ModelName(i) == "m" \o Pad2(i)

Names ==
    {"Total"} \cup {UserKeys[i] : i \in DOMAIN UserKeys} \cup ModelKeys
    \cup {UserName(i) : i \in 1..MaxRecords}
    \cup {ModelName(i) : i \in 1..MaxRecords}

\* The place of each name in the order of Python's str comparison.
StrRank == [s \in Names |-> Cardinality({x \in Names : StrLessChars(x, s)})]
\* a < b for str
StrLess(a, b) == StrRank[a] < StrRank[b]

\* The sum of column col over the rows from i on whose column by is k.
RECURSIVE SumWhere(_, _, _, _, _)
SumWhere(frame, col, by, k, i) ==
    IF i > Len(frame) THEN 0
    ELSE (IF frame[i][by] = k THEN frame[i][col] ELSE 0)
         + SumWhere(frame, col, by, k, i + 1)

RECURSIVE SumFrom(_, _, _)
SumFrom(frame, col, i) ==
    IF i > Len(frame) THEN 0 ELSE frame[i][col] + SumFrom(frame, col, i + 1)

\* frame[col].sum()
ColumnSum(frame, col) == SumFrom(frame, col, 1)

\* The strings of S in ascending order.
RECURSIVE SortedStrs(_)
SortedStrs(S) ==
    IF S = {} THEN <<>>
    ELSE LET m == CHOOSE x \in S : \A y \in S : x = y \/ StrLess(x, y)
         IN  <<m>> \o SortedStrs(S \ {m})

RECURSIVE KeysFrom(_, _, _, _)
KeysFrom(frame, by, i, seen) ==
    IF i > Len(frame) THEN <<>>
    ELSE IF frame[i][by] \in seen THEN KeysFrom(frame, by, i + 1, seen)
    ELSE <<frame[i][by]>> \o KeysFrom(frame, by, i + 1, seen \cup {frame[i][by]})

\* Variant of GroupKeys that keeps the keys in the order in which the frame
\* first names them (groupby with sort=False); C8 does not hold of it.
GroupKeysFirstSeen(frame, by) == KeysFrom(frame, by, 1, {})

\* The distinct keys in ascending order: groupby sorts its group keys.
GroupKeys(frame, by) == SortedStrs({frame[i][by] : i \in DOMAIN frame})

RECURSIVE GroupRows(_, _, _, _, _)
GroupRows(frame, by, cols, ks, p) ==
    IF p > Len(ks) THEN <<>>
    ELSE <<[c \in {by} \cup cols |->
               IF c = by THEN ks[p] ELSE SumWhere(frame, c, by, ks[p], 1)]>>
         \o GroupRows(frame, by, cols, ks, p + 1)

\* frame.groupby(by)[cols].sum().reset_index()
GroupBySum(frame, by, cols) ==
    GroupRows(frame, by, cols, GroupKeys(frame, by), 1)

RECURSIVE Perms(_)
Perms(T) ==
    IF T = {} THEN {<<>>}
    ELSE UNION {{<<x>> \o q : q \in Perms(T \ {x})} : x \in T}

\* The orders of the row indices I in which column by does not increase.
RECURSIVE DescOrders(_, _, _)
DescOrders(frame, by, I) ==
    IF I = {} THEN {<<>>}
    ELSE LET top == {i \in I : \A j \in I : frame[j][by] <= frame[i][by]}
         IN  {p \o q : p \in Perms(top), q \in DescOrders(frame, by, I \ top)}

\* Descending order of the row indices I, rows of equal value in their
\* order in frame.
RECURSIVE StableDescOrder(_, _, _)
StableDescOrder(frame, by, I) ==
    IF I = {} THEN <<>>
    ELSE LET i == CHOOSE x \in I : \A j \in I :
                     \/ frame[j][by] < frame[x][by]
                     \/ frame[j][by] = frame[x][by] /\ x <= j
         IN  <<i>> \o StableDescOrder(frame, by, I \ {i})

RECURSIVE Pick(_, _, _)
Pick(frame, o, p) ==
    IF p > Len(o) THEN <<>> ELSE <<frame[o[p]]>> \o Pick(frame, o, p + 1)

RECURSIVE Reversed(_)
Reversed(q) == IF q = <<>> THEN <<>> ELSE Append(Reversed(Tail(q)), Head(q))

\* Variant of SortValuesDesc that sorts in ascending order (ascending=False
\* left out); C5 does not hold of it.
SortValuesAsc(frame, by, stable) ==
    LET orders == IF stable THEN {StableDescOrder(frame, by, DOMAIN frame)}
                  ELSE DescOrders(frame, by, DOMAIN frame)
    IN  {Pick(frame, Reversed(o), 1) : o \in orders}

\* frame.sort_values(by=by, ascending=False): the sort kind is the default,
\* quicksort, which does not promise an order for rows of equal value.  The
\* result is the set of frames the call may return; stable says whether
\* the build's quicksort leaves equal values in place.
SortValuesDesc(frame, by, stable) ==
    LET orders == IF stable THEN {StableDescOrder(frame, by, DOMAIN frame)}
                  ELSE DescOrders(frame, by, DOMAIN frame)
    IN  {Pick(frame, o, 1) : o \in orders}

\* frame.head(n)
HeadRows(frame, n) == SubSeq(frame, 1, IF Len(frame) < n THEN Len(frame) ELSE n)

(***************************************************************************)
(* plot_data                                                               *)
(***************************************************************************)
ModelsTable(frame, col, stable) ==
    {HeadRows(t, TopN) :
        t \in SortValuesDesc(GroupBySum(frame, "model", {col}), col, stable)}

TotalRow(users) ==
    [user |-> "Total", total_cost |-> ColumnSum(users, "total_cost"),
     total_tokens |-> ColumnSum(users, "total_tokens")]

\* Variant of UsersTable that cuts the user rows to the first TopN, as the
\* model tables are cut; C6 does not hold of it.
UsersTableTop(frame, stable) ==
    {HeadRows(t, TopN) \o <<TotalRow(HeadRows(t, TopN))>> :
        t \in SortValuesDesc(
                 GroupBySum(frame, "user", {"total_cost", "total_tokens"}),
                 "total_cost", stable)}

UsersTable(frame, stable) ==
    {t \o <<TotalRow(t)>> :
        t \in SortValuesDesc(
                 GroupBySum(frame, "user", {"total_cost", "total_tokens"}),
                 "total_cost", stable)}

\* data_users[data_users["user"] != "Total"]
FigUsersRows(data_users) == SelectSeq(data_users, LAMBDA r : r.user # "Total")

\* What plot_data shows for a frame: the three tables and the rows charted.
plot_data(frame, stable) ==
    {[data_models_tokens |-> mt, data_models_cost |-> mc, data_users |-> du,
      fig_models_tokens |-> mt, fig_models_cost |-> mc,
      fig_users |-> FigUsersRows(du)] :
        mt \in ModelsTable(frame, "total_tokens", stable),
        mc \in ModelsTable(frame, "total_cost", stable),
        du \in UsersTable(frame, stable)}

\* The DataFrame of a list of rows whose columns are all str or all numbers.
WellTyped(records) ==
    \A i \in DOMAIN records :
        /\ records[i].model.kind = "str"
        /\ records[i].user.kind = "str"
        /\ records[i].total_cost.kind = "num"
        /\ records[i].total_tokens.kind = "num"

Frame(records) ==
    [i \in DOMAIN records |->
        [model |-> records[i].model.str, user |-> records[i].user.str,
         total_cost |-> records[i].total_cost.num,
         total_tokens |-> records[i].total_tokens.num]]

NotShown == [shown |-> FALSE, numeric |-> FALSE]

\* pandas on columns that mix None, str and lists is not part of this model.
OtherFrame == [shown |-> TRUE, numeric |-> FALSE]

Shown(t) == [shown |-> TRUE, numeric |-> TRUE, out |-> t]

(***************************************************************************)
(* Inputs: the files the data directory may hold.                          *)
(***************************************************************************)
Field(k, v) == [key |-> k, item |-> v]

\* A usage entry; a field given as Absent is left out.
MkEntry(m, c, i, o) ==
    Dict(SelectSeq(<<Field("model", m), Field("total_cost", c),
                     Field("input_tokens", i), Field("output_tokens", o)>>,
                   LAMBDA f : f.item # Absent))

GoodEntry == MkEntry(Str("gpt-4"), Num(200), Num(100), Num(50))

\* Two users may tie on cost: float("1.50") is the number 1.5.
GoodEntries ==
    {MkEntry(Str(m), c, Num(100), Num(50)) :
        m \in ModelKeys, c \in {Num(200), Num(150), Str("1.50")}}

BadEntries ==
    {MkEntry(Absent, Num(200), Num(100), Num(50)),
     MkEntry(Str("gpt-4"), Absent, Num(100), Num(50)),
     MkEntry(Str("gpt-4"), Num(200), Absent, Num(50)),
     MkEntry(Str("gpt-4"), Num(200), Num(100), Absent),
     MkEntry(Str("gpt-4"), Str("abc"), Num(100), Num(50)),
     MkEntry(Str("gpt-4"), None, Num(100), Num(50)),
     MkEntry(Str("gpt-4"), List(<<Num(200)>>), Num(100), Num(50)),
     MkEntry(Str("gpt-4"), Num(200), Str("7"), Num(50)),
     MkEntry(Str("gpt-4"), Num(200), Num(100), Str("7")),
     MkEntry(Str("gpt-4"), Num(200), Str("7"), Str("7")),
     MkEntry(Str("gpt-4"), Num(200), None, Num(50)),
     MkEntry(Str("gpt-4"), Str("abc"), Num(100), Absent),
     MkEntry(Absent, Str("abc"), Num(100), Num(50))}

LlamaEntry == MkEntry(Str("llama"), Str("1.50"), Num(10), Num(10))

\* What a user key may map to: a list of entries, or something else.
EntryLists ==
    {List(<<e>>) : e \in GoodEntries \cup BadEntries}
    \cup {List(<<>>),
          List(<<GoodEntry, LlamaEntry>>),
          List(<<GoodEntry, MkEntry(Absent, Num(200), Num(100), Num(50))>>),
          List(<<MkEntry(Str("gpt-4"), None, Num(100), Num(50)), GoodEntry>>),
          GoodEntry, Str("ab"), None,
          List(<<Num(5)>>), List(<<List(<<GoodEntry>>)>>)}

\* The keys of a document of n users, in the order of the file.
KeyOrders(n) ==
    {[i \in 1..n |-> UserKeys[i]],
     [i \in 1..n |-> IF i = 1 THEN "Total" ELSE UserKeys[i]]}

\* The document with keys ks, key ks[i] mapped to seqs[i].
Document(ks, seqs) == Dict([i \in DOMAIN ks |-> Field(ks[i], seqs[i])])

NonMappings ==
    {None, Num(5), Str("ab"), Str(""), List(<<>>), List(<<GoodEntry>>),
     List(<<Str("a")>>), List(<<Num(1), List(<<GoodEntry>>)>>)}

NotJson == [kind |-> "text"]

Json(v) == [kind |-> "json", val |-> v]

\* The months the number_input of main is given here, within its range.
Months == {MinMonth, MinMonth + 1, MaxMonth}

\* The data directory holds one file, of month StoredMonth of the current
\* year.
StoredMonth == MinMonth + 1

\* os.path.exists(path)
PathExists(m) == fs.month = m

(***************************************************************************)
(* main                                                                    *)
(***************************************************************************)
IntroMsg ==
    [level |-> "info", what |-> "Select the month of the json to load",
     key |-> None, record |-> None, user |-> None]

NoFileMsg ==
    [level |-> "info", what |-> "File does not exist", key |-> None,
     record |-> None, user |-> None]

Init ==
    /\ pc = "number_input"
    /\ quicksort_stable \in BOOLEAN
    /\ \/ \E f \in {NotJson} \cup {Json(v) : v \in NonMappings} :
             fs = [month |-> StoredMonth, file |-> f]
       \/ \E n \in 0..MaxUsers : \E ks \in KeyOrders(n) :
             \E seqs \in [1..n -> EntryLists] :
                fs = [month |-> StoredMonth, file |-> Json(Document(ks, seqs))]
    /\ month = MinMonth
    /\ data = Unbound
    /\ processed_data = Unbound
    /\ messages = <<>>
    /\ calls = <<>>
    /\ raised = ""
    /\ tables = NotShown

\* lines 186-197
NumberInput ==
    /\ pc = "number_input"
    /\ \E m \in Months :
          /\ month' = m
          /\ pc' = IF m # 0 THEN "path_exists" ELSE "done"
    /\ messages' = Append(messages, IntroMsg)
    /\ UNCHANGED <<quicksort_stable, fs, data, processed_data, calls, raised,
                   tables>>

\* lines 198-201
CheckPath ==
    /\ pc = "path_exists"
    /\ IF PathExists(month)
       THEN pc' = "load_data" /\ UNCHANGED messages
       ELSE pc' = "done" /\ messages' = Append(messages, NoFileMsg)
    /\ UNCHANGED <<quicksort_stable, fs, month, data, processed_data, calls,
                   raised, tables>>

\* lines 202-203
LoadData ==
    /\ pc = "load_data"
    /\ LET r == load_data(fs.file)
       IN  /\ data' = r.ret
           /\ messages' = messages \o r.msgs
           /\ pc' = IF r.ret # None THEN "process_data" ELSE "done"
    /\ calls' = Append(calls, "load_data")
    /\ UNCHANGED <<quicksort_stable, fs, month, processed_data, raised, tables>>

\* line 204; an exception that leaves process_data ends the run of main.
ProcessData ==
    /\ pc = "process_data"
    /\ LET r == process_data(data)
       IN  /\ messages' = messages \o r.msgs
           /\ raised' = r.raised
           /\ IF r.raised = ""
              THEN processed_data' = r.records /\ pc' = "plot_data"
              ELSE UNCHANGED processed_data /\ pc' = "done"
    /\ calls' = Append(calls, "process_data")
    /\ UNCHANGED <<quicksort_stable, fs, month, data, tables>>

\* line 205
PlotData ==
    /\ pc = "plot_data"
    /\ IF WellTyped(processed_data)
       THEN \E t \in plot_data(Frame(processed_data), quicksort_stable) :
               tables' = Shown(t)
       ELSE tables' = OtherFrame
    /\ calls' = Append(calls, "plot_data")
    /\ pc' = "done"
    /\ UNCHANGED <<quicksort_stable, fs, month, data, processed_data,
                   messages, raised>>

Next == NumberInput \/ CheckPath \/ LoadData \/ ProcessData \/ PlotData

Spec == Init /\ [][Next]_vars

(***************************************************************************)
(* plot_data on its own, over record sets of up to MaxRecords records.     *)
(***************************************************************************)
\* Where a record may repeat the choice of the record before it (0: nowhere).
Spots(n) == {0} \cup {p \in {1, 2, TopN} : p < n}

Mirror(up, i, n) == IF up THEN i ELSE n + 1 - i

Slot(i, p) == IF p > 0 /\ i = p + 1 THEN p ELSE i

\* n records, one per user.  Models, costs and token counts each run up or
\* down with the position, and at one spot each the record repeats the model,
\* the cost or the token count of the record before it; the first user may
\* be called Total.
RecordSet(n, mup, mrep, cup, crep, tup, trep, total) ==
    [i \in 1..n |->
        Row(Str(ModelName(Mirror(mup, Slot(i, mrep), n))),
            Num(100 * Mirror(cup, Slot(i, crep), n)),
            Str(IF total /\ i = 1 THEN "Total" ELSE UserName(i)),
            Num(Mirror(tup, Slot(i, trep), n)))]

RecordSets ==
    UNION {{RecordSet(n, mup, mrep, cup, crep, tup, trep, total) :
               mup \in BOOLEAN, mrep \in Spots(n), cup \in BOOLEAN,
               crep \in Spots(n), tup \in BOOLEAN, trep \in Spots(n),
               total \in BOOLEAN} : n \in 0..MaxRecords}

InitPlot ==
    /\ pc = "plot_data"
    /\ quicksort_stable \in BOOLEAN
    /\ fs = [month |-> StoredMonth, file |-> NotJson]
    /\ month = StoredMonth
    /\ data = Unbound
    /\ processed_data \in RecordSets
    /\ messages = <<>>
    /\ calls = <<>>
    /\ raised = ""
    /\ tables = NotShown

NextPlot == PlotData

SpecPlot == InitPlot /\ [][NextPlot]_vars

(***************************************************************************)
(* Vocabulary of the properties, read off the state.                       *)
(***************************************************************************)
Called(f) == \E i \in DOMAIN calls : calls[i] = f

RequiredFields == {"model", "total_cost", "input_tokens", "output_tokens"}

HandlerTexts ==
    {"Missing key in record", "Invalid cost or token value in record",
     "An error occurred processing record"}

\* The errors process_data reported, in order.
ProcessErrors == SelectSeq(messages, LAMBDA m : m.what \in HandlerTexts)

IsDocument == data.kind = "dict"

UserAt(i) == Str(data.fields[i].key)

\* data[k][0] of the i-th key, where Python defines it.
HasFirst(i) ==
    LET v == data.fields[i].item
    IN  \/ v.kind = "list" /\ Len(v.items) > 0
        \/ v.kind = "str" /\ Len(v.str) > 0

FirstOf(i) ==
    LET v == data.fields[i].item
    IN  IF v.kind = "list" THEN v.items[1] ELSE Str(SubSeq(v.str, 1, 1))

IsEntry(i) == HasFirst(i) /\ FirstOf(i).kind = "dict"

FieldOf(e, name) ==
    IF \E j \in DOMAIN e.fields : e.fields[j].key = name
    THEN e.fields[CHOOSE j \in DOMAIN e.fields : e.fields[j].key = name].item
    ELSE Absent

Complete(e) == \A f \in RequiredFields : FieldOf(e, f) # Absent

\* The decimal strings among the inputs and the numbers they denote.
DecimalValue == [s \in {"1.50"} |-> 150]

IsNumericCost(c) ==
    \/ c.kind = "num"
    \/ c.kind = "str" /\ c.str \in DOMAIN DecimalValue

CostValue(c) == IF c.kind = "num" THEN c.num ELSE DecimalValue[c.str]

IntegerTokens(e) ==
    /\ FieldOf(e, "input_tokens").kind = "num"
    /\ FieldOf(e, "output_tokens").kind = "num"

ValidEntry(e) ==
    /\ Complete(e)
    /\ IsNumericCost(FieldOf(e, "total_cost"))
    /\ IntegerTokens(e)

\* The row of the i-th key, row by row what the claims say of it.
RowOfEntry(row, i) ==
    /\ row.user = UserAt(i)
    /\ row.model = FieldOf(FirstOf(i), "model")
    /\ IntegerTokens(FirstOf(i))
    /\ row.total_tokens = Num(FieldOf(FirstOf(i), "input_tokens").num
                              + FieldOf(FirstOf(i), "output_tokens").num)

OneRowPerKey ==
    /\ raised = ""
    /\ Len(processed_data) = Len(data.fields)
    /\ \A i \in DOMAIN data.fields : RowOfEntry(processed_data[i], i)

(***************************************************************************)
(* Properties of process_data, load_data and main, under Spec.             *)
(***************************************************************************)
\* C1: for every document (a mapping), whatever fails for one key is caught
\* and reported, the loop goes on, and process_data returns normally: every
\* key ends with a row or with a reported error, and no exception leaves.
C1_NoFailureAbortsBatch ==
    (Called("process_data") /\ IsDocument) =>
        /\ raised = ""
        /\ \A i \in DOMAIN data.fields :
              \/ \E r \in DOMAIN processed_data :
                    processed_data[r].user = UserAt(i)
              \/ \E m \in DOMAIN ProcessErrors :
                    ProcessErrors[m].user = UserAt(i)

\* C2: process_data drops exactly the users whose first entry lacks a
\* required field or has a cost or token count that is no number, reports
\* one error for each of them, and returns a row for every other user.
\* Stated for the documents in which every key has a first entry that is a
\* mapping.
C2_DropsExactlyInvalid ==
    (Called("process_data") /\ IsDocument
        /\ \A i \in DOMAIN data.fields : IsEntry(i)) =>
        LET kept == SelectSeq(data.fields, LAMBDA f : ValidEntry(f.item.items[1]))
            dropped == SelectSeq(data.fields,
                                 LAMBDA f : ~ValidEntry(f.item.items[1]))
        IN  /\ raised = ""
            /\ Len(processed_data) = Len(kept)
            /\ \A r \in DOMAIN kept : processed_data[r].user = Str(kept[r].key)
            /\ Len(ProcessErrors) = Len(dropped)
            /\ \A m \in DOMAIN dropped :
                  ProcessErrors[m].user = Str(dropped[m].key)

\* C3 as stated: when every first entry has the four fields and a numeric
\* or numeric-string cost, there is exactly one row per key, in key order,
\* with the key as user, the entry's model and the sum of its token counts.
C3_Original ==
    (Called("process_data") /\ IsDocument
        /\ \A i \in DOMAIN data.fields :
              /\ IsEntry(i)
              /\ Complete(FirstOf(i))
              /\ IsNumericCost(FieldOf(FirstOf(i), "total_cost"))) =>
        OneRowPerKey

\* C3 amended: the same when, in addition, the token counts of every first
\* entry are integers; the cost of the row is the number the entry's cost
\* denotes.  Only first entries are read: the rows are given by them alone.
C3_OneRowPerWellFormedUser ==
    (Called("process_data") /\ IsDocument
        /\ \A i \in DOMAIN data.fields :
              /\ IsEntry(i)
              /\ Complete(FirstOf(i))
              /\ IsNumericCost(FieldOf(FirstOf(i), "total_cost"))
              /\ IntegerTokens(FirstOf(i))) =>
        /\ OneRowPerKey
        /\ \A i \in DOMAIN data.fields :
              processed_data[i].total_cost
                 = Num(CostValue(FieldOf(FirstOf(i), "total_cost")))

\* Witness of C3: process_data has returned on a document of two well-formed
\* users, one with a numeric-string cost, one with a second entry that
\* differs from the first.
C3_Witness ==
    /\ Called("process_data")
    /\ IsDocument
    /\ Len(data.fields) = 2
    /\ \A i \in DOMAIN data.fields : IsEntry(i) /\ ValidEntry(FirstOf(i))
    /\ \E i \in DOMAIN data.fields : FieldOf(FirstOf(i), "total_cost").kind = "str"
    /\ \E i \in DOMAIN data.fields :
          /\ Len(data.fields[i].item.items) > 1
          /\ data.fields[i].item.items[2] # FirstOf(i)
    /\ Len(processed_data) = 2

\* C4: for a top-level input that is no mapping, the run ends with
\* load_data having returned None, or with process_data having returned an
\* empty record set and reported it; no exception leaves either function.
C4_NonMappingNeverFaults ==
    (pc = "done" /\ Called("load_data")
        /\ (fs.file.kind = "text" \/ fs.file.val.kind # "dict")) =>
        \/ data = None
        \/ /\ Called("process_data")
           /\ raised = ""
           /\ processed_data = <<>>
           /\ \E m \in DOMAIN messages :
                 messages[m].level \in {"error", "warning"}

\* C7: the stages run in the order load_data, process_data, plot_data; none
\* runs for month 0 or for a missing file (which is reported); neither of
\* the last two runs when load_data returns None; and when load_data
\* returns a document the three have each run exactly once.
C7_StagesGated ==
    /\ \E n \in 0..3 : calls = SubSeq(<<"load_data", "process_data", "plot_data">>, 1, n)
    /\ pc = "done" =>
          /\ month = MinMonth => calls = <<>>
          /\ (month # MinMonth /\ ~PathExists(month)) =>
                /\ calls = <<>>
                /\ \E m \in DOMAIN messages : messages[m] = NoFileMsg
          /\ (month # MinMonth /\ PathExists(month) /\ data = None) =>
                calls = <<"load_data">>
          /\ (month # MinMonth /\ PathExists(month) /\ data # None) =>
                calls = <<"load_data", "process_data", "plot_data">>

\* C9: every error reported while handling key k carries data[k][0], the
\* entry of k itself, a missing-key report names a required field, and no
\* report is attempted with no entry bound.
C9_ErrorCarriesOwnEntry ==
    (Called("process_data") /\ IsDocument) =>
        /\ raised # "UnboundLocalError"
        /\ \A m \in DOMAIN ProcessErrors :
              /\ \E i \in DOMAIN data.fields :
                    /\ UserAt(i) = ProcessErrors[m].user
                    /\ HasFirst(i)
                    /\ ProcessErrors[m].record = FirstOf(i)
              /\ ProcessErrors[m].what = "Missing key in record" =>
                    /\ ProcessErrors[m].key.kind = "str"
                    /\ ProcessErrors[m].key.str \in RequiredFields

(***************************************************************************)
(* Properties of plot_data, under SpecPlot.                                *)
(***************************************************************************)
TablesShown == tables.shown /\ tables.numeric

RECURSIVE SumRecords(_, _)
SumRecords(I, col) ==
    IF I = {} THEN 0
    ELSE LET i == CHOOSE j \in I : TRUE
         IN  processed_data[i][col].num + SumRecords(I \ {i}, col)

\* The sum of column col over the records whose column by is k.
TotalOf(col, by, k) ==
    SumRecords({i \in DOMAIN processed_data : processed_data[i][by].str = k},
               col)

ModelsOfRecords == {processed_data[i].model.str : i \in DOMAIN processed_data}

UsersOfRecords == {processed_data[i].user.str : i \in DOMAIN processed_data}

ModelTableOf(col) ==
    IF col = "total_tokens" THEN tables.out.data_models_tokens
    ELSE tables.out.data_models_cost

Listed(t) == {t[p].model : p \in DOMAIN t}

\* The record at which model m is first met.
FirstSeen(m) ==
    CHOOSE i \in DOMAIN processed_data :
        /\ processed_data[i].model.str = m
        /\ \A j \in 1..(i - 1) : processed_data[j].model.str # m

\* C5: each model table has min(10, number of models) rows, does not
\* increase, gives each listed model, listed once, the sum of the column
\* over the records of that model, and leaves out no model whose sum is
\* greater than that of a model it keeps.
C5_TopModels ==
    TablesShown =>
        \A col \in {"total_tokens", "total_cost"} :
            LET t == ModelTableOf(col)
                k == Cardinality(ModelsOfRecords)
            IN  /\ Len(t) = IF k < TopN THEN k ELSE TopN
                /\ \A p, q \in DOMAIN t : p < q =>
                      /\ t[p][col] >= t[q][col]
                      /\ t[p].model # t[q].model
                /\ \A p \in DOMAIN t :
                      /\ t[p].model \in ModelsOfRecords
                      /\ t[p][col] = TotalOf(col, "model", t[p].model)
                /\ \A m \in ModelsOfRecords \ Listed(t) : \A p \in DOMAIN t :
                      TotalOf(col, "model", m) <= t[p][col]

\* Witness of C5: tables of a record set with more than 10 models, one of
\* them with two records, where a model left out of the cost table has the
\* same sum as one kept.
C5_Witness ==
    /\ TablesShown
    /\ Cardinality(ModelsOfRecords) > TopN
    /\ Len(processed_data) > Cardinality(ModelsOfRecords)
    /\ Len(tables.out.data_models_cost) = TopN
    /\ \E m \in ModelsOfRecords \ Listed(tables.out.data_models_cost) :
          TotalOf("total_cost", "model", m)
             = tables.out.data_models_cost[TopN].total_cost

\* C6: the user table has one row per user of the record set, none cut,
\* not increasing in total_cost, each with the sums of that user, and then
\* one last row Total holding the sums of the two columns over the other
\* rows; for no records it is the one row Total 0 0.
C6_UserTotals ==
    TablesShown =>
        LET du == tables.out.data_users
            n == Len(du) - 1
        IN  /\ n = Cardinality(UsersOfRecords)
            /\ \A p, q \in 1..n : p < q =>
                  /\ du[p].total_cost >= du[q].total_cost
                  /\ du[p].user # du[q].user
            /\ \A p \in 1..n :
                  /\ du[p].user \in UsersOfRecords
                  /\ du[p].total_cost = TotalOf("total_cost", "user", du[p].user)
                  /\ du[p].total_tokens
                        = TotalOf("total_tokens", "user", du[p].user)
            /\ du[n + 1].user = "Total"
            /\ du[n + 1].total_cost
                  = SumRecords(DOMAIN processed_data, "total_cost")
            /\ du[n + 1].total_tokens
                  = SumRecords(DOMAIN processed_data, "total_tokens")
            /\ processed_data = <<>> =>
                  du = <<[user |-> "Total", total_cost |-> 0,
                          total_tokens |-> 0]>>

\* Witness of C6: the table of a record set of more than 10 users, two of
\* them with the same cost.
C6_Witness ==
    /\ TablesShown
    /\ Cardinality(UsersOfRecords) > TopN
    /\ Len(tables.out.data_users) = Cardinality(UsersOfRecords) + 1
    /\ \E p \in 1..(Len(tables.out.data_users) - 2) :
          tables.out.data_users[p].total_cost
             = tables.out.data_users[p + 1].total_cost

\* Witness of C6 for no records: the table is shown for the empty set.
C6_EmptyShown == TablesShown /\ processed_data = <<>>

\* C8 as stated: the sort leaving rows of equal value in place, in both
\* model tables of two models with the same sum the one met first in the
\* record set comes first, also across the cut.
C8_Original ==
    (TablesShown /\ quicksort_stable) =>
        \A col \in {"total_tokens", "total_cost"} :
            LET t == ModelTableOf(col)
            IN  /\ \A p, q \in DOMAIN t :
                      (p < q /\ t[p][col] = t[q][col]) =>
                          FirstSeen(t[p].model) < FirstSeen(t[q].model)
                /\ \A m \in ModelsOfRecords \ Listed(t) : \A p \in DOMAIN t :
                      TotalOf(col, "model", m) = t[p][col] =>
                          FirstSeen(t[p].model) < FirstSeen(m)

\* C8 amended: when the sort leaves rows of equal value in place, of two
\* models with the same sum the one whose name is smaller comes first, also
\* across the cut: the order in which the records name the models plays no
\* part.
C8_TiesInNameOrder ==
    (TablesShown /\ quicksort_stable) =>
        \A col \in {"total_tokens", "total_cost"} :
            LET t == ModelTableOf(col)
            IN  /\ \A p, q \in DOMAIN t :
                      (p < q /\ t[p][col] = t[q][col]) =>
                          StrLessChars(t[p].model, t[q].model)
                /\ \A m \in ModelsOfRecords \ Listed(t) : \A p \in DOMAIN t :
                      TotalOf(col, "model", m) = t[p][col] =>
                          StrLessChars(t[p].model, m)

\* Witness of C8: a table of more than 10 models from a sort that leaves
\* ties in place, where the model kept last has the same sum as a model
\* left out that the records name earlier.
C8_Witness ==
    /\ TablesShown
    /\ quicksort_stable
    /\ Cardinality(ModelsOfRecords) > TopN
    /\ \E m \in ModelsOfRecords \ Listed(tables.out.data_models_cost) :
          /\ TotalOf("total_cost", "model", m)
                = tables.out.data_models_cost[TopN].total_cost
          /\ FirstSeen(m) < FirstSeen(tables.out.data_models_cost[TopN].model)

\* C10: the rows charted under Total Cost by User are the rows of the user
\* table but the appended last one, so every user of the record set has one
\* bar, a user called Total too; the table keeps every row.
C10_ChartHasEveryUser ==
    TablesShown =>
        LET du == tables.out.data_users
            fig == tables.out.fig_users
        IN  /\ fig = SubSeq(du, 1, Len(du) - 1)
            /\ \A u \in UsersOfRecords :
                  Cardinality({p \in DOMAIN fig : fig[p].user = u}) = 1

=============================================================================
